---- MODULE Spec2Model ----
(***************************************************************************)
(* tlsdebug: the ClientHello sniffing decorator (clientHelloConn) over a   *)
(* net.Conn, its shared bufferPool, and the two parsers handshakeRecord    *)
(* and parseHello.                                                          *)
(*                                                                         *)
(* A byte is a natural number in 0..255, a byte slice is a sequence of     *)
(* bytes.  A Go slice value that may be nil is the record                  *)
(* [isNil, bytes]; an error is a string, "nil" for the nil error.          *)
(***************************************************************************)
EXTENDS Naturals, Sequences, FiniteSets

\* ------------------------------------------------------------------ bounds
\* Largest ClientHello body (in bytes) a modelled stream carries.
MaxBody == 1
\* Number of distinct bytes.Buffer objects bufferPool.New may create.
MaxBufs == 2

\* ------------------------------------------------------- program constants
recordHeaderSize == 5
helloHeaderSize == 4
typeHandshake == 22
typeSSLv2 == 128
majorVersion == 3
maxRecordLength == 16384
typeClientHello == 1

\* ------------------------------------------------------------------ values
NilErr == "nil"
EOF == "EOF"
ErrUnexpectedEOF == "unexpected EOF"
ErrSSLv2 == "unsupported SSLv2 handshake received"
ErrNotHandshake == "record type is not handshake"
ErrVersion == "record has unsupported version"
ErrRecordLength == "record length is greater than maximum allowed"
ErrHelloShort == "handshake record is too short"
ErrNotClientHello == "handshake record is not ClientHello"
ErrHelloLength == "handshake record has invalid length"
\* Transport errors of the underlying net.Conn other than io.EOF.
ErrTimeout == "i/o timeout"
ErrClosed == "use of closed network connection"

NilSlice == [isNil |-> TRUE, bytes |-> <<>>]
Slice(s) == [isNil |-> FALSE, bytes |-> s]

\* The nil *bytes.Buffer.
NoBuf == 0
BufIds == 1..MaxBufs

Conns == {"c1", "c2"}

\* ----------------------------------------------------------------- parsers
Uint16(b, i) == b[i] * 256 + b[i + 1]
Uint24(b, i) == (b[i] * 256 + b[i + 1]) * 256 + b[i + 2]
Drop(b, k) == SubSeq(b, k + 1, Len(b))
Take(b, k) == SubSeq(b, 1, k)

\* Mutant: the record length is not compared with maxRecordLength.
handshakeRecordNoMax(b) ==
  IF Len(b) < recordHeaderSize THEN [out |-> NilSlice, err |-> ErrUnexpectedEOF]
  ELSE LET typ == b[1]
           vers == Uint16(b, 2)
           length == Uint16(b, 4)
           rest == Drop(b, recordHeaderSize)
       IN IF typ # typeHandshake
          THEN IF typ = typeSSLv2
               THEN [out |-> NilSlice, err |-> ErrSSLv2]
               ELSE [out |-> NilSlice, err |-> ErrNotHandshake]
          ELSE IF vers \div 256 # majorVersion
          THEN [out |-> NilSlice, err |-> ErrVersion]
          ELSE IF length > Len(rest)
          THEN [out |-> NilSlice, err |-> ErrUnexpectedEOF]
          ELSE [out |-> Slice(Take(rest, length)), err |-> NilErr]

\* handshakeRecord: read one TLS record, which must be for the handshake
\* protocol, from b.
handshakeRecord(b) ==
  IF Len(b) < recordHeaderSize THEN [out |-> NilSlice, err |-> ErrUnexpectedEOF]
  ELSE LET typ == b[1]
           vers == Uint16(b, 2)
           length == Uint16(b, 4)
           rest == Drop(b, recordHeaderSize)
       IN IF typ # typeHandshake
          THEN IF typ = typeSSLv2
               THEN [out |-> NilSlice, err |-> ErrSSLv2]
               ELSE [out |-> NilSlice, err |-> ErrNotHandshake]
          ELSE IF vers \div 256 # majorVersion
          THEN [out |-> NilSlice, err |-> ErrVersion]
          ELSE IF length > maxRecordLength
          THEN [out |-> NilSlice, err |-> ErrRecordLength]
          ELSE IF length > Len(rest)
          THEN [out |-> NilSlice, err |-> ErrUnexpectedEOF]
          ELSE [out |-> Slice(Take(rest, length)), err |-> NilErr]

\* Mutant: the bytes of the record after the declared body are not cut off.
parseHelloNoTrim(b) ==
  IF Len(b) < helloHeaderSize THEN [out |-> NilSlice, err |-> ErrHelloShort]
  ELSE LET typ == b[1]
           length == Uint24(b, 2)
           rest == Drop(b, helloHeaderSize)
       IN IF typ # typeClientHello
          THEN [out |-> NilSlice, err |-> ErrNotClientHello]
          ELSE IF length > Len(rest)
          THEN [out |-> NilSlice, err |-> ErrHelloLength]
          ELSE [out |-> Slice(rest), err |-> NilErr]

\* parseHello: parse a TLS handshake record as a ClientHello message.
parseHello(b) ==
  IF Len(b) < helloHeaderSize THEN [out |-> NilSlice, err |-> ErrHelloShort]
  ELSE LET typ == b[1]
           length == Uint24(b, 2)
           rest == Drop(b, helloHeaderSize)
       IN IF typ # typeClientHello
          THEN [out |-> NilSlice, err |-> ErrNotClientHello]
          ELSE IF length > Len(rest)
          THEN [out |-> NilSlice, err |-> ErrHelloLength]
          ELSE [out |-> Slice(Take(rest, length)), err |-> NilErr]

\* ------------------------------------------------------------------- state
VARIABLES
  stream,    \* stream[c]: the bytes the peer of connection c sends
  pos,       \* pos[c]: how many of them the underlying Conn.Read has delivered
  eof,       \* eof[c]: the underlying Conn.Read has returned io.EOF
  closed,    \* closed[c]: the underlying Conn.Close has been called
  buf,       \* buf[c]: clientHelloConn.buf, a buffer id or NoBuf
  doneCH,    \* doneCH[c]: clientHelloConn.doneCH
  calls,     \* calls[c]: the invocations of fn so far, oldest first
  returned,  \* returned[c]: all bytes Read has returned to its caller
  sniffOk,   \* sniffOk[c]: only Reads with a nil error were issued on c so far
  pool,      \* bufferPool: the ids of the buffers it holds
  made,      \* the ids of the buffers bufferPool.New has created
  bufData,   \* bufData[id]: the content of buffer id
  last,      \* the last call of a method: its result and what it did, in order
  wrapped,   \* wrapped[c]: the Conn and fn fields of the clientHelloConn in
             \* slot c, or NoConn when no connection was accepted into it
  rd,        \* rd[c]: the Read call in flight on c: its position and locals
  cl         \* cl[c]: the Close call in flight on c: its position and locals

vars == <<stream, pos, eof, closed, buf, doneCH, calls, returned, sniffOk,
          pool, made, bufData, last, wrapped, rd, cl>>

\* ----------------------------------------------------------------- streams
\* The streams of the model: a 5-byte record header followed by a 4-byte
\* handshake header and MaxBody body bytes, every header field drawn from
\* values on both sides of each check of the two parsers.
BodyBytes == [i \in 1..MaxBody |-> 10 + i]
PayloadLen == helloHeaderSize + MaxBody
RecordTypes == {typeHandshake, typeSSLv2, 23}
MajorVersions == {majorVersion, 2}
RecordLengths == (0..(PayloadLen + 1)) \cup {maxRecordLength, maxRecordLength + 1}
HelloTypes == {typeClientHello, 2}
HelloLengths == 0..(MaxBody + 1)

RecordHeader(typ, maj, length) == <<typ, maj, 1, length \div 256, length % 256>>
HelloHeader(typ, length) == <<typ, 0, 0, length>>

Streams ==
  { RecordHeader(typeHandshake, majorVersion, rl) \o HelloHeader(ht, hl) \o BodyBytes :
      rl \in RecordLengths, ht \in HelloTypes, hl \in HelloLengths }
  \cup
  { RecordHeader(t, v, PayloadLen) \o HelloHeader(typeClientHello, MaxBody) \o BodyBytes :
      t \in RecordTypes, v \in MajorVersions }

\* The stream of the specification with two connections: a complete record
\* that is too short for a handshake header.
PoolStreams == { RecordHeader(typeHandshake, majorVersion, 0) }

Delivered(c) == Take(stream[c], pos[c])

\* -------------------------------------------------------------- bufferPool
\* bufferPool.Get returns a buffer the pool holds, or a new one.
NewBufs == IF BufIds \ made = {} THEN {}
           ELSE {CHOOSE id \in BufIds \ made : \A o \in BufIds \ made : id <= o}
GetChoices == pool \cup NewBufs

\* Mutant: Write replaces the content instead of appending to it.
BufWriteOver(data, p) == p
\* bytes.Buffer.Write
BufWrite(data, p) == data \o p
\* Mutant: the buffer is put back without being reset.
BufResetKeep(data) == data
\* bytes.Buffer.Reset
BufReset(data) == <<>>
\* bufferPool.Put
PoolPut(pl, id) == pl \cup {id}
\* Mutant: ch.buf is not set to nil after the buffer is put back.
ClearBufKeep(id) == id
\* ch.buf = nil
ClearBuf(id) == NoBuf

\* if ch.buf != nil { ch.buf.Reset(); bufferPool.Put(ch.buf); ch.buf = nil }
\* on the fields of a record with buf, pool, data and ev.
Release(r) ==
  IF r.buf = NoBuf THEN r
  ELSE [r EXCEPT !.data = [@ EXCEPT ![r.buf] = BufReset(@)],
                 !.pool = PoolPut(@, r.buf),
                 !.buf = ClearBuf(@),
                 !.ev = @ \o <<"buf.Reset", "bufferPool.Put">>]

\* ------------------------------------------------------ clientHelloConn.Read
\* Mutant: doneCH is not tested.
SkipSniffNoDone(done, err) == err # NilErr /\ err # EOF
\* Mutant: the error of the underlying read is not tested.
SkipSniffDoneOnly(done, err) == done
\* if ch.doneCH || (err != nil && err != io.EOF) { return n, err }
SkipSniff(done, err) == done \/ (err # NilErr /\ err # EOF)

\* Mutant: bytes that come with an error are not returned.
ReadReturnErrOnly(n, err) == [n |-> IF err = NilErr THEN n ELSE 0, err |-> err]
\* The two results of Read: every return statement is "return n, err".
ReadReturn(n, err) == [n |-> n, err |-> err]

\* Mutant: fn is given the clientHelloConn itself.
FnConnDecorator(c) == <<"clientHelloConn", c>>
\* The handle fn is given: ch.Conn, the underlying connection.
FnConn(c) == <<"Conn", c>>

\* The part of Read after the underlying read returned chunk and err; g is
\* the buffer bufferPool.Get returns if it is called.
Sniff(c, chunk, err, g) ==
  LET start == [buf |-> buf[c], done |-> doneCH[c], calls |-> calls[c],
                pool |-> pool, made |-> made, data |-> bufData,
                ev |-> <<"Conn.Read">>]
  IN IF SkipSniff(doneCH[c], err) THEN start
     ELSE
       LET hasBuf == buf[c] # NoBuf
           written == IF hasBuf
                      THEN [start EXCEPT !.data = [@ EXCEPT ![buf[c]] = BufWrite(@, chunk)],
                                         !.ev = @ \o <<"buf.Write">>]
                      ELSE start
           hb == IF hasBuf THEN written.data[buf[c]] ELSE chunk
           rec == handshakeRecord(hb)
           parsed == [written EXCEPT !.ev = @ \o <<"handshakeRecord">>]
       IN IF rec.err = ErrUnexpectedEOF
          THEN IF hasBuf THEN parsed
               ELSE [parsed EXCEPT !.buf = g,
                                   !.pool = @ \ {g},
                                   !.made = @ \cup {g},
                                   !.data = [@ EXCEPT ![g] = BufWrite(@, chunk)],
                                   !.ev = @ \o <<"bufferPool.Get", "buf.Grow", "buf.Write">>]
          ELSE
            LET hello == IF rec.err = NilErr THEN parseHello(rec.out.bytes) ELSE rec
                call == [conn |-> FnConn(c), ch |-> hello.out, err |-> hello.err]
                called == [parsed EXCEPT
                             !.done = TRUE,
                             !.calls = Append(@, call),
                             !.ev = @ \o (IF rec.err = NilErr THEN <<"parseHello">> ELSE <<>>)
                                      \o <<"fn">>]
            IN Release(called)

Has(ev, e) == \E i \in 1..Len(ev) : ev[i] = e

\* What the underlying Conn.Read may return: n bytes and an error.
UnderlyingReads(c) ==
  IF closed[c] THEN {[n |-> 0, err |-> e] : e \in {EOF, ErrClosed}}
  ELSE IF eof[c] THEN {[n |-> 0, err |-> EOF]}
  ELSE {[n |-> k, err |-> e] : k \in 0..(Len(stream[c]) - pos[c]),
                                 e \in {NilErr, EOF, ErrTimeout}}

\* Read, the underlying read returning one of the results in U.
ReadFrom(c, U) ==
  \E u \in U, g \in GetChoices \cup {NoBuf} :
    LET chunk == SubSeq(stream[c], pos[c] + 1, pos[c] + u.n)
        r == Sniff(c, chunk, u.err, g)
        ret == ReadReturn(u.n, u.err)
    IN /\ Has(r.ev, "bufferPool.Get") <=> g # NoBuf
       /\ pos' = [pos EXCEPT ![c] = @ + u.n]
       /\ eof' = [eof EXCEPT ![c] = @ \/ u.err = EOF]
       /\ buf' = [buf EXCEPT ![c] = r.buf]
       /\ doneCH' = [doneCH EXCEPT ![c] = r.done]
       /\ calls' = [calls EXCEPT ![c] = r.calls]
       /\ pool' = r.pool
       /\ made' = r.made
       /\ bufData' = r.data
       /\ returned' = [returned EXCEPT ![c] = @ \o Take(chunk, ret.n)]
       /\ sniffOk' = [sniffOk EXCEPT ![c] = @ /\ u.err = NilErr]
       /\ last' = [op |-> "Read", conn |-> c, err |-> ret.err, uerr |-> u.err,
                   ev |-> r.ev]
       /\ UNCHANGED <<stream, closed, wrapped, rd, cl>>

Read(c) == ReadFrom(c, UnderlyingReads(c))

\* Read where a transport error of the underlying read comes without bytes.
ReadWhole(c) ==
  ReadFrom(c, {u \in UnderlyingReads(c) : u.n = 0 \/ u.err \in {NilErr, EOF}})

\* ----------------------------------------------------- clientHelloConn.Close
\* The underlying Conn.Close returns nil or an error.
Close(c) ==
  \E e \in {NilErr, ErrClosed} :
    LET start == [buf |-> buf[c], pool |-> pool, data |-> bufData, ev |-> <<>>]
        r == Release(start)
    IN /\ buf' = [buf EXCEPT ![c] = r.buf]
       /\ pool' = r.pool
       /\ bufData' = r.data
       /\ closed' = [closed EXCEPT ![c] = TRUE]
       /\ sniffOk' = [sniffOk EXCEPT ![c] = FALSE]
       /\ last' = [op |-> "Close", conn |-> c, err |-> e, uerr |-> e,
                   ev |-> r.ev \o <<"Conn.Close">>]
       /\ UNCHANGED <<stream, pos, eof, doneCH, calls, returned, made, wrapped, rd, cl>>

\* ----------------------------------------------------- clientHelloConn.Write
\* Write is the embedded net.Conn's: clientHelloConn does not define it.
Write(c) ==
    /\ last' = [op |-> "Write", conn |-> c, err |-> NilErr, uerr |-> NilErr,
                ev |-> <<"Conn.Write">>]
    /\ UNCHANGED <<stream, pos, eof, closed, buf, doneCH, calls, returned,
                   sniffOk, pool, made, bufData, wrapped, rd, cl>>

\* ------------------------------------------------------------ ClientHelloConn
NoConn == [Conn |-> <<>>, fn |-> "nil"]
\* The callback the listener was made with.
ListenerFn == "fn"

\* Mutant: the new clientHelloConn starts with doneCH set.
ClientHelloConnDone(c, fn) ==
  [Conn |-> c, fn |-> fn, buf |-> NoBuf, doneCH |-> TRUE]
\* ClientHelloConn(c, fn): &clientHelloConn{Conn: c, fn: fn}.
ClientHelloConn(c, fn) ==
  [Conn |-> c, fn |-> fn, buf |-> NoBuf, doneCH |-> FALSE]

\* ------------------------------------------------- clientHelloListener.Accept
ErrAccept == "accept: too many open files"

\* A slot can take a new connection when it holds none, or when the one it
\* held was closed and has let go of its buffer.
FreeSlots == { c \in Conns : wrapped[c] = NoConn \/ (closed[c] /\ buf[c] = NoBuf) }

\* Accept: the underlying Listener.Accept fails, and its error is returned
\* with a nil connection; or it yields a connection, which is wrapped with
\* ClientHelloConn(c, ln.fn).
Accept ==
  \/ /\ last' = [op |-> "Accept", conn |-> "nil", err |-> ErrAccept,
                  uerr |-> ErrAccept, ev |-> <<"Listener.Accept">>, ret |-> NoConn]
     /\ UNCHANGED <<stream, pos, eof, closed, buf, doneCH, calls, returned,
                    sniffOk, pool, made, bufData, wrapped, rd, cl>>
  \/ \E c \in FreeSlots, s \in PoolStreams :
       LET d == ClientHelloConn(<<"Conn", c>>, ListenerFn)
       IN /\ wrapped' = [wrapped EXCEPT ![c] = [Conn |-> d.Conn, fn |-> d.fn]]
          /\ buf' = [buf EXCEPT ![c] = d.buf]
          /\ doneCH' = [doneCH EXCEPT ![c] = d.doneCH]
          /\ stream' = [stream EXCEPT ![c] = s]
          /\ pos' = [pos EXCEPT ![c] = 0]
          /\ eof' = [eof EXCEPT ![c] = FALSE]
          /\ closed' = [closed EXCEPT ![c] = FALSE]
          /\ calls' = [calls EXCEPT ![c] = <<>>]
          /\ returned' = [returned EXCEPT ![c] = <<>>]
          /\ sniffOk' = [sniffOk EXCEPT ![c] = TRUE]
          /\ last' = [op |-> "Accept", conn |-> c, err |-> NilErr, uerr |-> NilErr,
                      ev |-> <<"Listener.Accept", "ClientHelloConn">>,
                      ret |-> [Conn |-> d.Conn, fn |-> d.fn]]
          /\ UNCHANGED <<pool, made, bufData, rd, cl>>

\* --------------------------------------- Read and Close, statement by statement
\* The locals of a Read call: hb is a slice and the buffer it aliases (NoBuf
\* when it aliases b); rb is the value of ch.buf the call last loaded; fault
\* records a misuse of a buffer by this call.
NilHb == [isNil |-> TRUE, bytes |-> <<>>, src |-> NoBuf]
IdleRead == [pc |-> "idle", n |-> 0, err |-> NilErr, hb |-> NilHb,
             herr |-> NilErr, rb |-> NoBuf, fault |-> "none"]
IdleClose == [pc |-> "idle", rb |-> NoBuf, fault |-> "none"]

\* b[:n] of the Read call in flight on c.
ChunkOf(c) == SubSeq(stream[c], pos[c] - rd[c].n + 1, pos[c])

\* ch.buf is read without synchronisation: a use of it after a test sees the
\* field as it is now or the value the test loaded.
Loads(c, loaded) == {buf[c], loaded}

\* A nil ch.buf is dereferenced, or a buffer that is in the pool is used.
UseFault(p, old) ==
  IF old # "none" THEN old
  ELSE IF p = NoBuf THEN "nil dereference"
  ELSE IF p \in pool THEN "use after put"
  ELSE "none"
PutFault(p, old) ==
  IF old # "none" THEN old
  ELSE IF p = NoBuf THEN "nil put"
  ELSE IF p \in pool THEN "put twice"
  ELSE "none"

\* Mutant: the buffer is released before fn is called.
ReadAfterReleaseFirst(stmt) ==
  CASE stmt = "doneCH" -> "release"
    [] stmt = "clear" -> "fn"
    [] stmt = "fn" -> "return"
\* The statement of Read that follows stmt: ch.doneCH = true, then parseHello
\* and fn, then the release of the buffer, then return.
ReadAfter(stmt) ==
  CASE stmt = "doneCH" -> "fn"
    [] stmt = "fn" -> "release"
    [] stmt = "clear" -> "return"

\* A nil dereference panics, and the panic ends the program.
Panicked == \E c \in Conns : rd[c].pc = "panic" \/ cl[c].pc = "panic"

ReadGoes(c, from, frame) ==
  /\ ~Panicked
  /\ rd[c].pc = from
  /\ rd' = [rd EXCEPT ![c] = frame]

\* The underlying reads of the statement-level specifications: nothing, the
\* record header, or all that is left of the stream; a transport error
\* comes without bytes.
StepReads(c) ==
  { u \in UnderlyingReads(c) :
      /\ u.n \in {0, recordHeaderSize, Len(stream[c]) - pos[c]}
      /\ u.n = 0 \/ u.err \in {NilErr, EOF} }

\* n, err = ch.Conn.Read(b)
ReadConnRead(c) ==
  \E u \in StepReads(c) :
    /\ ReadGoes(c, "idle", [IdleRead EXCEPT !.pc = "skip", !.n = u.n, !.err = u.err])
    /\ pos' = [pos EXCEPT ![c] = @ + u.n]
    /\ eof' = [eof EXCEPT ![c] = @ \/ u.err = EOF]
    /\ UNCHANGED <<stream, closed, buf, doneCH, calls, returned, sniffOk, pool,
                   made, bufData, last, wrapped, cl>>

\* if ch.doneCH || (err != nil && err != io.EOF) { return n, err }
ReadSkip(c) ==
  /\ ReadGoes(c, "skip", [rd[c] EXCEPT !.pc = IF SkipSniff(doneCH[c], rd[c].err)
                                               THEN "return" ELSE "hasbuf"])
  /\ UNCHANGED <<stream, pos, eof, closed, buf, doneCH, calls, returned, sniffOk,
                 pool, made, bufData, last, wrapped, cl>>

\* hb := b[:n]; if ch.buf != nil
ReadHasBuf(c) ==
  /\ ReadGoes(c, "hasbuf",
              [rd[c] EXCEPT !.hb = [isNil |-> FALSE, bytes |-> ChunkOf(c), src |-> NoBuf],
                            !.rb = buf[c],
                            !.pc = IF buf[c] # NoBuf THEN "write" ELSE "record"])
  /\ UNCHANGED <<stream, pos, eof, closed, buf, doneCH, calls, returned, sniffOk,
                 pool, made, bufData, last, wrapped, cl>>

\* ch.buf.Write(b[:n])
ReadBufWrite(c) ==
  \E p \in Loads(c, rd[c].rb) :
    /\ ReadGoes(c, "write", [rd[c] EXCEPT !.pc = IF p = NoBuf THEN "panic" ELSE "bytes",
                                          !.fault = UseFault(p, @)])
    /\ bufData' = IF p = NoBuf THEN bufData
                  ELSE [bufData EXCEPT ![p] = BufWrite(@, ChunkOf(c))]
    /\ UNCHANGED <<stream, pos, eof, closed, buf, doneCH, calls, returned, sniffOk,
                   pool, made, last, wrapped, cl>>

\* hb = ch.buf.Bytes()
ReadBufBytes(c) ==
  \E p \in Loads(c, rd[c].rb) :
    /\ ReadGoes(c, "bytes",
                [rd[c] EXCEPT !.pc = IF p = NoBuf THEN "panic" ELSE "record",
                              !.hb = IF p = NoBuf THEN @
                                     ELSE [isNil |-> FALSE, bytes |-> bufData[p], src |-> p],
                              !.fault = UseFault(p, @)])
    /\ UNCHANGED <<stream, pos, eof, closed, buf, doneCH, calls, returned, sniffOk,
                   pool, made, bufData, last, wrapped, cl>>

\* hb, herr := handshakeRecord(hb); if herr == io.ErrUnexpectedEOF { if ch.buf != nil
ReadRecord(c) ==
  LET rec == handshakeRecord(rd[c].hb.bytes)
      hb == [isNil |-> rec.out.isNil, bytes |-> rec.out.bytes,
             src |-> IF rec.out.isNil THEN NoBuf ELSE rd[c].hb.src]
  IN /\ ReadGoes(c, "record",
                 [rd[c] EXCEPT !.hb = hb, !.herr = rec.err,
                               !.pc = IF rec.err # ErrUnexpectedEOF THEN "doneCH"
                                      ELSE IF buf[c] # NoBuf THEN "return" ELSE "get"])
     /\ UNCHANGED <<stream, pos, eof, closed, buf, doneCH, calls, returned, sniffOk,
                    pool, made, bufData, last, wrapped, cl>>

\* ch.buf = bufferPool.Get().(*bytes.Buffer)
ReadGet(c) ==
  \E g \in GetChoices :
    /\ ReadGoes(c, "get", [rd[c] EXCEPT !.pc = "grow", !.rb = g])
    /\ buf' = [buf EXCEPT ![c] = g]
    /\ pool' = pool \ {g}
    /\ made' = made \cup {g}
    /\ UNCHANGED <<stream, pos, eof, closed, doneCH, calls, returned, sniffOk,
                   bufData, last, wrapped, cl>>

\* ch.buf.Grow(512 + 32); ch.buf.Write(b[:n]); return n, err
ReadGrowWrite(c) ==
  \E p \in Loads(c, rd[c].rb) :
    /\ ReadGoes(c, "grow", [rd[c] EXCEPT !.pc = IF p = NoBuf THEN "panic" ELSE "return",
                                         !.fault = UseFault(p, @)])
    /\ bufData' = IF p = NoBuf THEN bufData
                  ELSE [bufData EXCEPT ![p] = BufWrite(@, ChunkOf(c))]
    /\ UNCHANGED <<stream, pos, eof, closed, buf, doneCH, calls, returned, sniffOk,
                   pool, made, last, wrapped, cl>>

\* ch.doneCH = true
ReadDone(c) ==
  /\ ReadGoes(c, "doneCH", [rd[c] EXCEPT !.pc = ReadAfter("doneCH")])
  /\ doneCH' = [doneCH EXCEPT ![c] = TRUE]
  /\ UNCHANGED <<stream, pos, eof, closed, buf, calls, returned, sniffOk, pool,
                 made, bufData, last, wrapped, cl>>

\* if herr == nil { hb, herr = parseHello(hb) }; fn is entered with
\* (ch.Conn, hb, herr)
ReadCallFn(c) ==
  LET hello == IF rd[c].herr = NilErr THEN parseHello(rd[c].hb.bytes)
               ELSE [out |-> [isNil |-> rd[c].hb.isNil, bytes |-> rd[c].hb.bytes],
                     err |-> rd[c].herr]
      hb == [isNil |-> hello.out.isNil, bytes |-> hello.out.bytes,
             src |-> IF hello.out.isNil THEN NoBuf ELSE rd[c].hb.src]
  IN /\ ReadGoes(c, "fn",
                 [rd[c] EXCEPT !.hb = hb, !.herr = hello.err, !.pc = "infn",
                               !.fault = IF hb.src = NoBuf THEN @ ELSE UseFault(hb.src, @)])
     /\ calls' = [calls EXCEPT ![c] =
                    Append(@, [conn |-> FnConn(c), ch |-> hello.out, err |-> hello.err])]
     /\ UNCHANGED <<stream, pos, eof, closed, buf, doneCH, returned, sniffOk, pool,
                    made, bufData, last, wrapped, cl>>

\* fn returns
ReadFnReturns(c) ==
  /\ ReadGoes(c, "infn", [rd[c] EXCEPT !.pc = ReadAfter("fn")])
  /\ UNCHANGED <<stream, pos, eof, closed, buf, doneCH, calls, returned, sniffOk,
                 pool, made, bufData, last, wrapped, cl>>

\* if ch.buf != nil
ReadReleaseCheck(c) ==
  /\ ReadGoes(c, "release", [rd[c] EXCEPT !.rb = buf[c],
                                          !.pc = IF buf[c] # NoBuf THEN "reset"
                                                 ELSE ReadAfter("clear")])
  /\ UNCHANGED <<stream, pos, eof, closed, buf, doneCH, calls, returned, sniffOk,
                 pool, made, bufData, last, wrapped, cl>>

\* ch.buf.Reset()
ReadReset(c) ==
  \E p \in Loads(c, rd[c].rb) :
    /\ ReadGoes(c, "reset", [rd[c] EXCEPT !.pc = IF p = NoBuf THEN "panic" ELSE "put",
                                          !.fault = UseFault(p, @)])
    /\ bufData' = IF p = NoBuf THEN bufData ELSE [bufData EXCEPT ![p] = BufReset(@)]
    /\ UNCHANGED <<stream, pos, eof, closed, buf, doneCH, calls, returned, sniffOk,
                   pool, made, last, wrapped, cl>>

\* bufferPool.Put(ch.buf): a nil ch.buf is put as it is.
ReadPut(c) ==
  \E p \in Loads(c, rd[c].rb) :
    /\ ReadGoes(c, "put", [rd[c] EXCEPT !.pc = "clear",
                                        !.fault = PutFault(p, @)])
    /\ pool' = IF p = NoBuf THEN pool ELSE PoolPut(pool, p)
    /\ UNCHANGED <<stream, pos, eof, closed, buf, doneCH, calls, returned, sniffOk,
                   made, bufData, last, wrapped, cl>>

\* ch.buf = nil
ReadClear(c) ==
  /\ ReadGoes(c, "clear", [rd[c] EXCEPT !.pc = ReadAfter("clear")])
  /\ buf' = [buf EXCEPT ![c] = ClearBuf(@)]
  /\ UNCHANGED <<stream, pos, eof, closed, doneCH, calls, returned, sniffOk, pool,
                 made, bufData, last, wrapped, cl>>

\* return n, err
ReadRet(c) ==
  LET ret == ReadReturn(rd[c].n, rd[c].err)
  IN /\ ReadGoes(c, "return", [IdleRead EXCEPT !.fault = rd[c].fault])
     /\ returned' = [returned EXCEPT ![c] = @ \o Take(ChunkOf(c), ret.n)]
     /\ sniffOk' = [sniffOk EXCEPT ![c] = @ /\ rd[c].err = NilErr]
     /\ UNCHANGED <<stream, pos, eof, closed, buf, doneCH, calls, pool, made,
                    bufData, last, wrapped, cl>>

CloseGoes(c, from, frame) ==
  /\ ~Panicked
  /\ cl[c].pc = from
  /\ cl' = [cl EXCEPT ![c] = frame]

\* if ch.buf != nil
CloseCheck(c) ==
  /\ CloseGoes(c, "idle", [IdleClose EXCEPT !.rb = buf[c],
                                           !.pc = IF buf[c] # NoBuf THEN "reset"
                                                  ELSE "close"])
  /\ UNCHANGED <<stream, pos, eof, closed, buf, doneCH, calls, returned, sniffOk,
                 pool, made, bufData, last, wrapped, rd>>

\* ch.buf.Reset()
CloseReset(c) ==
  \E p \in Loads(c, cl[c].rb) :
    /\ CloseGoes(c, "reset", [cl[c] EXCEPT !.pc = IF p = NoBuf THEN "panic" ELSE "put",
                                           !.fault = UseFault(p, @)])
    /\ bufData' = IF p = NoBuf THEN bufData ELSE [bufData EXCEPT ![p] = BufReset(@)]
    /\ UNCHANGED <<stream, pos, eof, closed, buf, doneCH, calls, returned, sniffOk,
                   pool, made, last, wrapped, rd>>

\* bufferPool.Put(ch.buf)
ClosePut(c) ==
  \E p \in Loads(c, cl[c].rb) :
    /\ CloseGoes(c, "put", [cl[c] EXCEPT !.pc = "clear",
                                         !.fault = PutFault(p, @)])
    /\ pool' = IF p = NoBuf THEN pool ELSE PoolPut(pool, p)
    /\ UNCHANGED <<stream, pos, eof, closed, buf, doneCH, calls, returned, sniffOk,
                   made, bufData, last, wrapped, rd>>

\* ch.buf = nil
CloseClear(c) ==
  /\ CloseGoes(c, "clear", [cl[c] EXCEPT !.pc = "close"])
  /\ buf' = [buf EXCEPT ![c] = ClearBuf(@)]
  /\ UNCHANGED <<stream, pos, eof, closed, doneCH, calls, returned, sniffOk, pool,
                 made, bufData, last, wrapped, rd>>

\* return ch.Conn.Close()
CloseConn(c) ==
  /\ CloseGoes(c, "close", [IdleClose EXCEPT !.fault = cl[c].fault])
  /\ closed' = [closed EXCEPT ![c] = TRUE]
  /\ sniffOk' = [sniffOk EXCEPT ![c] = FALSE]
  /\ UNCHANGED <<stream, pos, eof, buf, doneCH, calls, returned, pool,
                 made, bufData, last, wrapped, rd>>

\* ----------------------------------------------------------- specifications
NoCall == [op |-> "none", conn |-> "c1", err |-> NilErr, uerr |-> NilErr,
           ev |-> <<>>]

\* ClientHelloConn(c, fn): buf is nil and doneCH false.
InitConns ==
  /\ wrapped = [c \in Conns |-> [Conn |-> ClientHelloConn(<<"Conn", c>>, ListenerFn).Conn,
                                  fn |-> ClientHelloConn(<<"Conn", c>>, ListenerFn).fn]]
  /\ pos = [c \in Conns |-> 0]
  /\ eof = [c \in Conns |-> FALSE]
  /\ closed = [c \in Conns |-> FALSE]
  /\ buf = [c \in Conns |-> ClientHelloConn(<<"Conn", c>>, ListenerFn).buf]
  /\ doneCH = [c \in Conns |-> ClientHelloConn(<<"Conn", c>>, ListenerFn).doneCH]
  /\ calls = [c \in Conns |-> <<>>]
  /\ returned = [c \in Conns |-> <<>>]
  /\ sniffOk = [c \in Conns |-> TRUE]
  /\ pool = {}
  /\ made = {}
  /\ bufData = [id \in BufIds |-> <<>>]
  /\ last = NoCall
  /\ rd = [c \in Conns |-> IdleRead]
  /\ cl = [c \in Conns |-> IdleClose]

\* One connection in use, over every stream of the model.
Init ==
  /\ stream \in [Conns -> Streams]
  /\ stream["c2"] = stream["c1"]
  /\ InitConns

Next == Read("c1") \/ Close("c1") \/ Write("c1")

Spec == Init /\ [][Next]_vars

\* Two connections in use at a time, sharing bufferPool.
InitPool ==
  /\ stream \in [Conns -> PoolStreams]
  /\ InitConns

NextPool == \E c \in Conns : ReadWhole(c) \/ Close(c) \/ Write(c)

SpecPool == InitPool /\ [][NextPool]_vars

\* A listener: no connection is accepted yet; connections are accepted, read
\* whole, written and closed, and a closed connection's slot is accepted into
\* again.
InitListen ==
  /\ stream \in [Conns -> PoolStreams]
  /\ wrapped = [c \in Conns |-> NoConn]
  /\ pos = [c \in Conns |-> 0]
  /\ eof = [c \in Conns |-> FALSE]
  /\ closed = [c \in Conns |-> FALSE]
  /\ buf = [c \in Conns |-> NoBuf]
  /\ doneCH = [c \in Conns |-> FALSE]
  /\ calls = [c \in Conns |-> <<>>]
  /\ returned = [c \in Conns |-> <<>>]
  /\ sniffOk = [c \in Conns |-> TRUE]
  /\ pool = {}
  /\ made = {}
  /\ bufData = [i \in BufIds |-> <<>>]
  /\ last = NoCall
  /\ rd = [c \in Conns |-> IdleRead]
  /\ cl = [c \in Conns |-> IdleClose]

NextListen ==
  \/ Accept
  \/ \E c \in Conns : wrapped[c] # NoConn /\ (ReadWhole(c) \/ Close(c) \/ Write(c))

SpecListen == InitListen /\ [][NextListen]_vars

\* Two connections whose Read and Close calls run statement by statement,
\* the statements of the two connections interleaved; the calls on one
\* connection follow one another.  The stream is a record with a ClientHello.
StepStreams ==
  { RecordHeader(typeHandshake, majorVersion, PayloadLen)
      \o HelloHeader(typeClientHello, MaxBody) \o BodyBytes }

InitSteps ==
  /\ stream \in [Conns -> StepStreams]
  /\ InitConns

ReadStmt(c) ==
  \/ ReadSkip(c) \/ ReadHasBuf(c) \/ ReadBufWrite(c) \/ ReadBufBytes(c)
  \/ ReadRecord(c) \/ ReadGet(c) \/ ReadGrowWrite(c) \/ ReadDone(c)
  \/ ReadCallFn(c) \/ ReadFnReturns(c) \/ ReadReleaseCheck(c) \/ ReadReset(c)
  \/ ReadPut(c) \/ ReadClear(c) \/ ReadRet(c)

CloseStmt(c) == CloseReset(c) \/ ClosePut(c) \/ CloseClear(c) \/ CloseConn(c)

NextSteps ==
  \E c \in Conns :
    \/ cl[c].pc = "idle" /\ ReadConnRead(c)
    \/ ReadStmt(c)
    \/ rd[c].pc = "idle" /\ CloseCheck(c)
    \/ CloseStmt(c)

SpecSteps == InitSteps /\ [][NextSteps]_vars

\* One connection on which Close is called from another goroutine while a
\* Read is in flight: the statements of the two calls interleave.
InitRace == InitSteps

NextRace ==
  \/ ReadConnRead("c1") \/ ReadStmt("c1")
  \/ CloseCheck("c1") \/ CloseStmt("c1")

SpecRace == InitRace /\ [][NextRace]_vars

\* The record parser on its own: handshakeRecord applied to a byte slice.
\* The slices: every prefix of a record header, with its type, major and
\* minor version and declared length on both sides of each check, followed by
\* two payload bytes.
ParseInputs ==
  { Take(<<t, maj, min, rl \div 256, rl % 256, 11, 12>>, k) :
      t \in RecordTypes, maj \in MajorVersions, min \in {1, 3},
      rl \in {0, 1, 2, 3, maxRecordLength, maxRecordLength + 1}, k \in 0..7 }

InitParse ==
  /\ stream \in [Conns -> ParseInputs]
  /\ stream["c2"] = stream["c1"]
  /\ InitConns

ParseRecord ==
  LET res == handshakeRecord(stream["c1"])
  IN /\ last' = [op |-> "handshakeRecord", conn |-> "c1", err |-> res.err,
                 uerr |-> NilErr, ev |-> <<>>, arg |-> stream["c1"],
                 out |-> res.out]
     /\ UNCHANGED <<stream, pos, eof, closed, buf, doneCH, calls, returned,
                    sniffOk, pool, made, bufData, wrapped, rd, cl>>

NextParse == ParseRecord

SpecParse == InitParse /\ [][NextParse]_vars

\* ------------------------------------------------------------------ claims
InputOf(c) == IF buf[c] = NoBuf THEN <<>> ELSE bufData[buf[c]]
ReadStep(c) == last'.op = "Read" /\ last'.conn = c /\ vars' # vars
CloseStep(c) == last'.op = "Close" /\ last'.conn = c /\ vars' # vars
TransportErr(e) == e # NilErr /\ e # EOF

\* A stream that starts with one record holding a ClientHello: type 22, major
\* version 3, length <= 16384, handshake type 1, body length fitting the record.
RecordLen(s) == s[4] * 256 + s[5]
RecordEnd(s) == recordHeaderSize + RecordLen(s)
ValidClientHello(s) ==
  /\ Len(s) >= recordHeaderSize + helloHeaderSize
  /\ s[1] = 22 /\ s[2] = 3
  /\ RecordLen(s) <= 16384
  /\ RecordEnd(s) <= Len(s)
  /\ RecordLen(s) >= helloHeaderSize
  /\ s[6] = 1
  /\ (s[7] * 256 + s[8]) * 256 + s[9] <= RecordLen(s) - helloHeaderSize
\* The body obtained by parsing the unsplit record.
UnsplitBody(s) == parseHello(handshakeRecord(Take(s, RecordEnd(s))).out.bytes).out

\* C1: when only error-free Reads were issued on a connection whose stream is
\* a valid single-record ClientHello, fn has not been called before the last
\* byte of the record is delivered, and from then on it has been called exactly
\* once, with a nil error and the body of the unsplit record, however the
\* record was split into Reads.
C1_OneCompleteCallback ==
  \A c \in Conns :
    (sniffOk[c] /\ ValidClientHello(stream[c])) =>
      IF pos[c] < RecordEnd(stream[c])
      THEN calls[c] = <<>>
      ELSE calls[c] = << [conn |-> FnConn(c), ch |-> UnsplitBody(stream[c]),
                          err |-> NilErr] >>

\* C1 witness: a ClientHello with a non-empty body that fills the stream was
\* reassembled in the buffer over several Reads and delivered to fn.
C1_Witness ==
  /\ sniffOk["c1"] /\ ValidClientHello(stream["c1"])
  /\ RecordEnd(stream["c1"]) = Len(stream["c1"])
  /\ pos["c1"] = Len(stream["c1"])
  /\ Len(calls["c1"]) = 1
  /\ calls["c1"][1].ch.bytes # <<>>
  /\ last.ev = <<"Conn.Read", "buf.Write", "handshakeRecord", "parseHello", "fn",
                 "buf.Reset", "bufferPool.Put">>

\* C2: transparency: the bytes Read has returned to its caller are the bytes
\* the underlying reads delivered, in order, and the error of every call is
\* the error of the underlying call.
C2_Transparency ==
  /\ \A c \in Conns : returned[c] = Delivered(c)
  /\ last.err = last.uerr

\* C2 witness: the whole stream was read while fn was called with a parse
\* error, the last Read carrying bytes together with io.EOF.
C2_Witness ==
  /\ pos["c1"] = Len(stream["c1"])
  /\ returned["c1"] = stream["c1"]
  /\ Len(calls["c1"]) = 1 /\ calls["c1"][1].err # NilErr
  /\ last.op = "Read" /\ last.uerr = EOF /\ Has(last.ev, "fn")

\* C3: fn is called at most once on a connection, exactly when doneCH is set,
\* and doneCH, once set, stays set under any sequence of Read, Write and Close.
C3_AtMostOnce ==
  /\ [](\A c \in Conns : Len(calls[c]) <= 1 /\ (doneCH[c] <=> Len(calls[c]) = 1))
  /\ [][\A c \in Conns : doneCH[c] => doneCH'[c]]_vars

\* C3 witness: a Read on a connection that had called fn and was then closed.
C3_Witness ==
  /\ doneCH["c1"] /\ closed["c1"] /\ Len(calls["c1"]) = 1
  /\ last.op = "Read" /\ last.ev = <<"Conn.Read">>

\* C4 as claimed: a Read whose underlying read fails with a transport error
\* while the connection is Sniffing calls fn with that error, releases the
\* buffer and ends sniffing.
C4_AbortsOnTransportError ==
  [][\A c \in Conns :
       (ReadStep(c) /\ ~doneCH[c] /\ TransportErr(last'.uerr)) =>
         /\ doneCH'[c]
         /\ buf'[c] = NoBuf
         /\ Len(calls'[c]) = 1 /\ calls'[c][1].err = last'.uerr]_vars

\* C4 amended: a Read whose underlying read fails with a transport error while
\* the connection is Sniffing returns that error and does nothing else: no
\* parser runs, fn is not called, the buffer keeps its content and stays with
\* the connection, which stays Sniffing; every Read of a Sniffing connection
\* whose underlying read returns nil or io.EOF runs the record parser.
C4_TransportErrorKeepsSniffing ==
  [][\A c \in Conns :
       /\ (ReadStep(c) /\ ~doneCH[c] /\ TransportErr(last'.uerr)) =>
            /\ last'.err = last'.uerr
            /\ last'.ev = <<"Conn.Read">>
            /\ ~doneCH'[c] /\ calls'[c] = calls[c]
            /\ buf'[c] = buf[c] /\ bufData' = bufData /\ pool' = pool
       /\ (ReadStep(c) /\ ~doneCH[c] /\ ~TransportErr(last'.uerr)) =>
            Has(last'.ev, "handshakeRecord")]_vars

\* C4 witness: fn is called, from the buffer, by an error-free Read that comes
\* after a Read of the same connection failed with a transport error.
C4_Witness ==
  /\ ~sniffOk["c1"] /\ ~closed["c1"] /\ ~eof["c1"]
  /\ last.op = "Read" /\ last.uerr = NilErr
  /\ Has(last.ev, "buf.Write") /\ Has(last.ev, "fn")
  /\ InputOf("c1") = <<>> /\ Len(calls["c1"]) = 1

\* C5 as claimed: a Read of a Sniffing connection whose underlying read returns
\* n > 0 bytes with a transport error returns the error unchanged and adds the
\* n bytes to the sniffing input.
C5_ErrorBytesBuffered ==
  [][\A c \in Conns :
       (ReadStep(c) /\ ~doneCH[c] /\ TransportErr(last'.uerr) /\ pos'[c] > pos[c]) =>
         /\ last'.err = last'.uerr
         /\ InputOf(c)' = InputOf(c) \o SubSeq(stream[c], pos[c] + 1, pos'[c])]_vars

\* A buffer content that is a proper prefix of one record that the record
\* parser does not reject.
IncompleteRecord(b) == handshakeRecord(b).err = ErrUnexpectedEOF

\* C6 as claimed: the buffer of a Sniffing connection holds all bytes the
\* underlying reads have delivered so far, and these are a prefix of the first,
\* still incomplete record.
C6_BufferIsDeliveredPrefix ==
  \A c \in Conns :
    (~doneCH[c] /\ buf[c] # NoBuf) =>
      /\ bufData[buf[c]] = Delivered(c)
      /\ IncompleteRecord(bufData[buf[c]])

\* C7: a Read on a connection that has called fn only calls the underlying
\* Read and returns its bytes and error: no parser runs, fn is not called, no
\* buffer is taken from the pool, and the sniffing state is left as it was.
C7_PassThroughAfterCallback ==
  [][\A c \in Conns :
       (ReadStep(c) /\ calls[c] # <<>>) =>
         /\ last'.ev = <<"Conn.Read">>
         /\ last'.err = last'.uerr
         /\ returned'[c] = returned[c] \o SubSeq(stream[c], pos[c] + 1, pos'[c])
         /\ calls' = calls /\ doneCH' = doneCH /\ buf' = buf
         /\ pool' = pool /\ made' = made /\ bufData' = bufData]_vars

\* C7 witness: bytes are read, with io.EOF, after fn was called.
C7_Witness ==
  /\ Len(calls["c1"]) = 1
  /\ last.op = "Read" /\ last.ev = <<"Conn.Read">> /\ last.uerr = EOF
  /\ pos["c1"] = Len(stream["c1"])
  /\ handshakeRecord(Delivered("c1")).err = NilErr
  /\ RecordEnd(stream["c1"]) < Len(stream["c1"])

\* C8: a connection with doneCH set holds no buffer, a connection holds no
\* buffer right after Close, every buffer not held by a connection is in the
\* pool and empty, and Close resets and puts back the buffer before it calls
\* the underlying Close.
C8_DoneOrClosedHoldsNoBuffer ==
  /\ [](/\ \A c \in Conns : doneCH[c] => buf[c] = NoBuf
        /\ last.op = "Close" => buf[last.conn] = NoBuf
        /\ pool = made \ {buf[c] : c \in Conns}
        /\ \A id \in pool : bufData[id] = <<>>)
  /\ [][\A c \in Conns :
          (CloseStep(c) /\ buf[c] # NoBuf) =>
            /\ last'.ev = <<"buf.Reset", "bufferPool.Put", "Conn.Close">>
            /\ buf[c] \in pool' /\ bufData'[buf[c]] = <<>>]_vars

\* C8 witness: Close has put back the buffer of a Sniffing connection that had
\* buffered part of a record.
C8_Witness ==
  /\ last.op = "Close" /\ last.conn = "c1"
  /\ last.ev = <<"buf.Reset", "bufferPool.Put", "Conn.Close">>
  /\ ~doneCH["c1"] /\ pos["c1"] > 0 /\ buf["c1"] = NoBuf /\ pool # {}

\* C9: no buffer is held by two connections, none is held by a connection
\* while it is in the pool, and a buffer is empty when a connection takes it.
C9_BuffersNotShared ==
  /\ [](/\ \A c, d \in Conns : (c # d /\ buf[c] # NoBuf) => buf[c] # buf[d]
        /\ \A c \in Conns : buf[c] \notin pool
        /\ \A id \in pool : bufData[id] = <<>>)
  /\ [][\A c \in Conns :
          (buf[c] = NoBuf /\ buf'[c] # NoBuf) => bufData[buf'[c]] = <<>>]_vars

\* C9 witness: c2 holds, with bytes in it, the one buffer ever created, which
\* c1 had held for part of a record until it was closed.
C9_Witness ==
  /\ made = {1} /\ buf["c2"] = 1 /\ bufData[1] # <<>>
  /\ closed["c1"] /\ ~doneCH["c1"] /\ pos["c1"] > 0 /\ buf["c1"] = NoBuf

\* C10 as claimed: a closed connection holds no buffer.
C10_ClosedHoldsNoBuffer ==
  \A c \in Conns : closed[c] => buf[c] = NoBuf

\* C11 as claimed: a buffer that holds a record header never holds more bytes
\* than the length the header declares, and never more than 16384.
C11_BufferWithinDeclaredLength ==
  \A c \in Conns :
    (buf[c] # NoBuf /\ Len(bufData[buf[c]]) >= 5) =>
      /\ Len(bufData[buf[c]]) <= RecordLen(bufData[buf[c]])
      /\ Len(bufData[buf[c]]) <= 16384

\* C11 amended: between calls, a buffer that holds a record header holds a
\* header the record parser accepts (type 22, major version 3, declared length
\* at most 16384) and fewer bytes than the 5 bytes of the header plus the
\* declared length, so fewer than 5 + 16384 bytes.
C11_BufferWithinHeaderPlusLength ==
  \A c \in Conns :
    (buf[c] # NoBuf /\ Len(bufData[buf[c]]) >= 5) =>
      /\ bufData[buf[c]][1] = 22 /\ bufData[buf[c]][2] = 3
      /\ RecordLen(bufData[buf[c]]) <= 16384
      /\ Len(bufData[buf[c]]) < 5 + RecordLen(bufData[buf[c]])
      /\ Len(bufData[buf[c]]) < 5 + 16384

\* C11 witness: one byte short of a record: the buffer holds the header and all
\* but the last byte of the declared payload.
C11_Witness ==
  /\ buf["c1"] # NoBuf /\ sniffOk["c1"]
  /\ Len(bufData[buf["c1"]]) = 5 + 4
  /\ RecordLen(bufData[buf["c1"]]) = 5
  /\ last.op = "Read" /\ last.ev = <<"Conn.Read", "buf.Write", "handshakeRecord">>

\* C12 as claimed: on a connection whose first delivered byte is 0x80, fn is
\* called with the SSLv2 error and no bytes, and with nothing else; it has
\* been called once a record header of five bytes has been delivered.
C12_SSLv2Reported ==
  \A c \in Conns :
    (pos[c] >= 1 /\ stream[c][1] = 128) =>
      /\ calls[c] # <<>> =>
           calls[c] = << [conn |-> <<"Conn", c>>, ch |-> NilSlice, err |-> ErrSSLv2] >>
      /\ pos[c] >= 5 => calls[c] # <<>>

\* C13 as claimed: the Read that delivers the fifth byte of a handshake record
\* header (type 22, major version 3) declaring more than 16384 bytes calls fn
\* with the record length error and ends sniffing.
C13_TooLargeAtFifthByte ==
  [][\A c \in Conns :
       (/\ ReadStep(c) /\ pos[c] < 5 /\ pos'[c] >= 5
        /\ stream[c][1] = 22 /\ stream[c][2] = 3 /\ RecordLen(stream[c]) > 16384) =>
         /\ doneCH'[c]
         /\ calls'[c] = << [conn |-> <<"Conn", c>>, ch |-> NilSlice,
                            err |-> ErrRecordLength] >>]_vars

\* The three outcomes of a parser, as results of the Go functions.
NeedMoreData == [out |-> NilSlice, err |-> ErrUnexpectedEOF]
Invalid(reason) == [out |-> NilSlice, err |-> reason]
Complete(payload) == [out |-> Slice(payload), err |-> NilErr]

\* The outcome the checks of the record parser give for b, taken in order.
ExpectedRecord(b) ==
  IF Len(b) < 5 THEN NeedMoreData
  ELSE IF b[1] # 22 THEN Invalid(IF b[1] = 128 THEN ErrSSLv2 ELSE ErrNotHandshake)
  ELSE IF b[2] # 3 THEN Invalid(ErrVersion)
  ELSE IF b[4] * 256 + b[5] > 16384 THEN Invalid(ErrRecordLength)
  ELSE IF Len(b) - 5 < b[4] * 256 + b[5] THEN NeedMoreData
  ELSE Complete(SubSeq(b, 6, 5 + b[4] * 256 + b[5]))

\* C15: the result of handshakeRecord on a byte slice is the outcome of these
\* checks in this order: fewer than 5 bytes, type byte, byte at offset 1,
\* declared length above 16384, fewer payload bytes than declared; otherwise
\* the declared number of bytes after the header.
C15_RecordParserOrder ==
  last.op = "handshakeRecord" =>
    [out |-> last.out, err |-> last.err] = ExpectedRecord(last.arg)

\* C15 witness: a header with a wrong major version that declares 16385 bytes
\* is rejected for its version.
C15_Witness ==
  /\ last.op = "handshakeRecord"
  /\ Len(last.arg) = 5 /\ last.arg[1] = 22 /\ last.arg[2] = 2
  /\ RecordLen(last.arg) = 16385
  /\ last.err = ErrVersion

\* The outcome the checks of the handshake parser give for a record payload p.
ExpectedHello(p) ==
  IF Len(p) < 4 THEN Invalid(ErrHelloShort)
  ELSE IF p[1] # 1 THEN Invalid(ErrNotClientHello)
  ELSE IF (p[2] * 256 + p[3]) * 256 + p[4] > Len(p) - 4 THEN Invalid(ErrHelloLength)
  ELSE Complete(SubSeq(p, 5, 4 + (p[2] * 256 + p[3]) * 256 + p[4]))

\* The bytes the parsers of a Read step on c are given: the buffer content
\* followed by the bytes this Read delivers.
StepInput(c) == InputOf(c) \o SubSeq(stream[c], pos[c] + 1, pos'[c])

\* C16: a Read that finds a complete record runs the handshake parser on its
\* payload, and in that same Read sniffing ends with the parser's outcome given
\* to fn: an error when the payload has fewer than 4 bytes, a message type
\* other than 1 or a declared body longer than the bytes left; otherwise the
\* declared body, which may be empty, without the bytes after it.  The outcome
\* is never io.ErrUnexpectedEOF.
C16_HelloParserOutcome ==
  [][\A c \in Conns :
       /\ (/\ ReadStep(c) /\ ~doneCH[c] /\ ~TransportErr(last'.uerr)
           /\ ExpectedRecord(StepInput(c)).err = NilErr) =>
            Has(last'.ev, "parseHello")
       /\ (ReadStep(c) /\ Has(last'.ev, "parseHello")) =>
            /\ ExpectedRecord(StepInput(c)).err = NilErr
            /\ doneCH'[c] /\ buf'[c] = NoBuf
            /\ ExpectedHello(ExpectedRecord(StepInput(c)).out.bytes).err # ErrUnexpectedEOF
            /\ calls'[c] = Append(calls[c],
                 [conn |-> <<"Conn", c>>,
                  ch |-> ExpectedHello(ExpectedRecord(StepInput(c)).out.bytes).out,
                  err |-> ExpectedHello(ExpectedRecord(StepInput(c)).out.bytes).err])]_vars

\* C16 witness: the record 16 03 01 00 04 / 01 00 00 00 gave fn an empty,
\* non-nil ClientHello body.
C16_Witness ==
  /\ Take(stream["c1"], 9) = <<22, 3, 1, 0, 4, 1, 0, 0, 0>>
  /\ last.op = "Read" /\ Has(last.ev, "parseHello")
  /\ calls["c1"] = << [conn |-> <<"Conn", "c1">>, ch |-> Slice(<<>>), err |-> NilErr] >>

\* The errors of the two parsers that end sniffing.
ParseErrors == {ErrSSLv2, ErrNotHandshake, ErrVersion, ErrRecordLength,
                ErrHelloShort, ErrNotClientHello, ErrHelloLength}

\* C17: every call of fn was given the underlying connection, and either a nil
\* error with a non-nil body or a parse error with a nil slice.
C17_CallbackArguments ==
  \A c \in Conns : \A i \in 1..Len(calls[c]) :
    /\ calls[c][i].conn = <<"Conn", c>>
    /\ \/ calls[c][i].err = NilErr /\ ~calls[c][i].ch.isNil
       \/ calls[c][i].err \in ParseErrors /\ calls[c][i].ch = NilSlice

\* C17 witness: fn was given the error of the handshake parser for a complete
\* record that was reassembled in the buffer, and no bytes of that record.
C17_Witness ==
  /\ Len(calls["c1"]) = 1
  /\ calls["c1"][1].err = ErrHelloLength /\ calls["c1"][1].ch = NilSlice
  /\ last.op = "Read" /\ Has(last.ev, "buf.Write") /\ Has(last.ev, "parseHello")

\* C19 as claimed: a Read of a Sniffing connection whose underlying read
\* returns io.EOF gives the buffer content and its bytes to the record parser
\* and acts on the outcome as an error-free Read does; and on a connection whose
\* stream has ended before a complete record was delivered, and that is not
\* closed, fn has not been called, doneCH is false and the buffer is held.
C19_EndOfStreamKeepsSniffing ==
  /\ [](\A c \in Conns :
          (eof[c] /\ ~closed[c] /\ ExpectedRecord(Delivered(c)) = NeedMoreData) =>
            calls[c] = <<>> /\ ~doneCH[c] /\ buf[c] # NoBuf)
  /\ [][\A c \in Conns :
          (ReadStep(c) /\ ~doneCH[c] /\ last'.uerr = EOF) =>
            /\ Has(last'.ev, "handshakeRecord")
            /\ IF ExpectedRecord(StepInput(c)) = NeedMoreData
               THEN /\ ~doneCH'[c] /\ calls'[c] = calls[c]
                    /\ buf'[c] # NoBuf /\ bufData'[buf'[c]] = StepInput(c)
               ELSE doneCH'[c] /\ Len(calls'[c]) = Len(calls[c]) + 1]_vars

\* C14: every successful accept returns a new decorator around the accepted
\* connection: sniffing (doneCH false), without a buffer, bound to the
\* listener's callback, and leaving every other connection's sniffing state
\* and the pool as they were; a failed accept returns the underlying error
\* and no connection, and changes no connection.  Neither invokes the
\* callback.
AcceptStep == last'.op = "Accept" /\ vars' # vars

C14_AcceptWrapsFresh ==
  [][AcceptStep =>
       IF last'.uerr = NilErr
       THEN LET c == last'.conn
            IN /\ c \in Conns
               /\ last'.err = NilErr
               /\ last'.ret = [Conn |-> <<"Conn", c>>, fn |-> ListenerFn]
               /\ wrapped'[c] = last'.ret
               /\ ~doneCH'[c]
               /\ buf'[c] = NoBuf
               /\ calls'[c] = <<>>
               /\ ~Has(last'.ev, "fn")
               /\ pool' = pool /\ bufData' = bufData /\ made' = made
               /\ \A d \in Conns \ {c} :
                    /\ wrapped'[d] = wrapped[d]
                    /\ buf'[d] = buf[d]
                    /\ doneCH'[d] = doneCH[d]
                    /\ calls'[d] = calls[d]
       ELSE /\ last'.err = last'.uerr
            /\ last'.ret = NoConn
            /\ ~Has(last'.ev, "fn")
            /\ UNCHANGED <<wrapped, buf, doneCH, calls, pool, bufData, made>>]_vars

\* A connection was accepted while the other connection held a buffer and
\* an earlier connection's buffer was back in the pool.
C14_Witness ==
  /\ last.op = "Accept" /\ last.uerr = NilErr
  /\ \E d \in Conns \ {last.conn} : buf[d] # NoBuf
  /\ returned[last.conn] = <<>> /\ pool # {}

\* Connection d holds buffer id: ch.buf is id, and d is not between putting
\* the buffer back and setting ch.buf to nil.
Holds(d, id) == buf[d] = id /\ rd[d].pc # "clear" /\ cl[d].pc # "clear"

\* C18: fn runs inside the Read call that ends sniffing, which returns only
\* after fn did; while fn runs, the buffer behind the bytes it was given
\* still holds them, is not in the pool and is no other connection's.
C18_ObserverBeforeRelease ==
  /\ [](\A c \in Conns :
          rd[c].pc = "infn" =>
            /\ calls[c] # <<>>
            /\ rd[c].hb.src # NoBuf =>
                 /\ rd[c].hb.src \notin pool
                 /\ Holds(c, rd[c].hb.src)
                 /\ \A d \in Conns \ {c} : ~Holds(d, rd[c].hb.src)
                 /\ bufData[rd[c].hb.src] # <<>>)
  /\ [][\A c \in Conns :
          /\ calls'[c] # calls[c] => rd[c].pc = "fn" /\ rd'[c].pc = "infn"
          /\ rd[c].pc = "infn" =>
               /\ rd'[c].pc # "idle"
               /\ \A d \in Conns \ {c} :
                    buf'[d] # buf[d] /\ buf'[d] # NoBuf => buf'[d] # rd[c].hb.src]_vars

\* fn is running on c1 with bytes of c1's buffer while c2 holds a buffer it
\* has checked out.
C18_Witness ==
  /\ rd["c1"].pc = "infn" /\ rd["c1"].hb.src # NoBuf
  /\ buf["c2"] # NoBuf /\ rd["c2"].pc = "grow"

\* C20: when Close runs while a Read on the same connection is in flight,
\* neither call puts into the pool a buffer that is already there, and
\* neither uses a buffer that is in the pool or dereferences a nil ch.buf.
C20_CloseDuringReadIsSafe ==
  \A c \in Conns : rd[c].fault = "none" /\ cl[c].fault = "none"

====
